---------------------------- MODULE Spec2Model ----------------------------
(***************************************************************************)
(* Model of redline-rs/tools/trace_lcs.py: the token-sequence alignment    *)
(* pipeline of main() in --text mode                                       *)
(*     tokenize -> compute_lcs_matrix -> backtrack_lcs -> coalesce_edits   *)
(*                                                                         *)
(* A text is a sequence of characters, a token is a non-empty sequence of  *)
(* characters (a Python str), a token list is a sequence of tokens.        *)
(* Python indexes from 0 and TLA+ sequences from 1: seq1[i - 1] of the     *)
(* source is tokens1[i] here, while the positions pos1/pos2 stored in an   *)
(* Edit keep the source's 0-based values.                                  *)
(***************************************************************************)
EXTENDS Integers, Sequences, FiniteSets

VARIABLES
    pc,             \* position of main / of the function it is in
    text1, text2,   \* main: the two input texts
    chars,          \* main: args.chars
    tokens1, tokens2, \* main: the two token lists (seq1, seq2 of the callees)
    matrix,         \* main: the LCS length matrix
    i, j,           \* backtrack_lcs: the walk's cell
    edits,          \* backtrack_lcs: edits collected so far, in walk order
    raw_edits,      \* main: the raw edit script; coalesce_edits' parameter
    coalesced,      \* coalesce_edits: the groups closed so far
    current,        \* coalesce_edits: the running group
    idx,            \* coalesce_edits: index of the next edit of the for loop
    main_coalesced, \* main: the result of the last coalesce_edits call
    call,           \* main: number of coalesce_edits calls that returned
    list_ids,       \* which list object the tokens of each group are
    docs            \* main: the two documents and the section id of file mode

vars == <<pc, text1, text2, chars, tokens1, tokens2, matrix, i, j, edits,
          raw_edits, coalesced, current, idx, main_coalesced, call,
          list_ids, docs>>

---------------------------------------------------------------------------
(* Bounds of the model *)

MaxLen == 3        \* longest input text of the pipeline
MaxText == 3       \* longest first text of the tokenizer specification
MaxEdits == 3      \* longest edit script handed directly to coalesce_edits

---------------------------------------------------------------------------
(* Data *)

\* Optional[int] = None (Edit.pos1, Edit.pos2): positions are >= 0.
None == -1

\* The character U+00A0, named.
NBSP == "NBSP"

\* The characters tokenize_words splits on.
Whitespace == {" ", "\t", "\n", "\r", NBSP}

\* Characters of the pipeline's input texts, and of the tokenizer's.
Alphabet == {"a", "b", " "}
FullAlphabet == {"a", "b"} \cup Whitespace

EditOp == {"EQUAL", "DELETE", "INSERT"}

\* The dataclass Edit(op, tokens, pos1, pos2).
Edit(op, tokens, pos1, pos2) ==
    [op |-> op, tokens |-> tokens, pos1 |-> pos1, pos2 |-> pos2]

\* Value of `current` while no group is running.
NoEdit == Edit("EQUAL", <<>>, None, None)

\* Python lists are objects: two Edits may hold the same list, and extend()
\* on it then shows in both. list_ids names the list object of the tokens of
\* the running group (current), of each group closed so far (coalesced) and
\* of each group main holds (result): k > 0 is the list of the k-th edit of
\* the input script, 0 is a list coalesce_edits created itself.
NoLists == [current |-> 0, coalesced |-> <<>>, result |-> <<>>]

\* Value of `docs` in --text mode, where main opens no document.
NoDocs == [input1 |-> <<>>, input2 |-> <<>>, section_id |-> <<>>]

\* Optional[str] = None (find_section_text): no character is "None".
NoText == <<"None">>

SeqsUpTo(S, n) == UNION {[1..k -> S] : k \in 0..n}

Max(a, b) == IF a >= b THEN a ELSE b

\* list.reverse()
Reverse(s) == [k \in 1..Len(s) |-> s[Len(s) + 1 - k]]

\* ''.join(tokens)
RECURSIVE Join(_)
Join(tokens) ==
    IF tokens = <<>> THEN <<>> ELSE Head(tokens) \o Join(Tail(tokens))

---------------------------------------------------------------------------
(* Tokenizer *)

\* The for loop of tokenize_words from character k on, and the flush of
\* `current` after it.
RECURSIVE tokenize_words_from(_, _, _, _)
tokenize_words_from(text, k, tokens, cur) ==
    IF k > Len(text)
    THEN IF cur # <<>> THEN Append(tokens, cur) ELSE tokens
    ELSE IF text[k] \in Whitespace
         THEN tokenize_words_from(text, k + 1,
                  Append(IF cur # <<>> THEN Append(tokens, cur) ELSE tokens,
                         <<text[k]>>),
                  <<>>)
         ELSE tokenize_words_from(text, k + 1, tokens, Append(cur, text[k]))

\* Variant of tokenize_words that drops the whitespace, as str.split() does.
RECURSIVE tokenize_words_dropping_from(_, _, _, _)
tokenize_words_dropping_from(text, k, tokens, cur) ==
    IF k > Len(text)
    THEN IF cur # <<>> THEN Append(tokens, cur) ELSE tokens
    ELSE IF text[k] \in Whitespace
         THEN tokenize_words_dropping_from(text, k + 1,
                  IF cur # <<>> THEN Append(tokens, cur) ELSE tokens, <<>>)
         ELSE tokenize_words_dropping_from(text, k + 1, tokens,
                  Append(cur, text[k]))

tokenize_words_dropping(text) == tokenize_words_dropping_from(text, 1, <<>>, <<>>)

tokenize_words(text) == tokenize_words_from(text, 1, <<>>, <<>>)

\* list(text)
tokenize_chars(text) == [k \in 1..Len(text) |-> <<text[k]>>]

---------------------------------------------------------------------------
(* Alignment matrix *)

\* matrix = [[0] * (n + 1) for _ in range(m + 1)]
ZeroMatrix(m, n) == [r \in 0..m |-> [c \in 0..n |-> 0]]

\* Variant of CellValue that forgets the left neighbour matrix[r][c - 1].
CellValueUpOnly(mat, seq1, seq2, r, c) ==
    IF seq1[r] = seq2[c]
    THEN mat[r - 1][c - 1] + 1
    ELSE mat[r - 1][c]

\* The body of the inner loop: the value stored in matrix[r][c].
CellValue(mat, seq1, seq2, r, c) ==
    IF seq1[r] = seq2[c]
    THEN mat[r - 1][c - 1] + 1
    ELSE Max(mat[r - 1][c], mat[r][c - 1])

\* The two nested loops, row-major, from cell (r, c) on.
RECURSIVE FillFrom(_, _, _, _, _)
FillFrom(mat, seq1, seq2, r, c) ==
    IF r > Len(seq1) THEN mat
    ELSE IF c > Len(seq2) THEN FillFrom(mat, seq1, seq2, r + 1, 1)
    ELSE FillFrom([mat EXCEPT ![r][c] = CellValue(mat, seq1, seq2, r, c)],
                  seq1, seq2, r, c + 1)

compute_lcs_matrix(seq1, seq2) ==
    FillFrom(ZeroMatrix(Len(seq1), Len(seq2)), seq1, seq2, 1, 1)

---------------------------------------------------------------------------
(* main: tokenize, build the matrix *)

Init ==
    /\ pc = "tokenize"
    /\ text1 \in SeqsUpTo(Alphabet, MaxLen)
    /\ text2 \in SeqsUpTo(Alphabet, MaxLen)
    /\ chars \in BOOLEAN
    /\ tokens1 = <<>>
    /\ tokens2 = <<>>
    /\ matrix = ZeroMatrix(0, 0)
    /\ i = 0
    /\ j = 0
    /\ edits = <<>>
    /\ raw_edits = <<>>
    /\ coalesced = <<>>
    /\ current = NoEdit
    /\ idx = 0
    /\ main_coalesced = <<>>
    /\ call = 0
    /\ list_ids = NoLists
    /\ docs = NoDocs

Tokenize ==
    /\ pc = "tokenize"
    /\ tokens1' = IF chars THEN tokenize_chars(text1) ELSE tokenize_words(text1)
    /\ tokens2' = IF chars THEN tokenize_chars(text2) ELSE tokenize_words(text2)
    /\ pc' = "matrix"
    /\ UNCHANGED <<text1, text2, chars, matrix, i, j, edits, raw_edits,
                   coalesced, current, idx, main_coalesced, call,
                   list_ids, docs>>

ComputeMatrix ==
    /\ pc = "matrix"
    /\ matrix' = compute_lcs_matrix(tokens1, tokens2)
    /\ pc' = "backtrack"
    /\ UNCHANGED <<text1, text2, chars, tokens1, tokens2, i, j, edits,
                   raw_edits, coalesced, current, idx, main_coalesced, call,
                   list_ids, docs>>

---------------------------------------------------------------------------
(* backtrack_lcs *)

BacktrackStart ==
    /\ pc = "backtrack"
    /\ edits' = <<>>
    /\ i' = Len(tokens1)
    /\ j' = Len(tokens2)
    /\ pc' = "walk"
    /\ UNCHANGED <<text1, text2, chars, tokens1, tokens2, matrix, raw_edits,
                   coalesced, current, idx, main_coalesced, call,
                   list_ids, docs>>

\* The conditions of the if / elif / elif chain of the loop body.
\* Python's `and` / `or` evaluate left to right and stop early, which is what
\* keeps the subscripts in range; IF-THEN-ELSE says the same.
LoopCond == IF i > 0 THEN TRUE ELSE j > 0
MatchCond == i > 0 /\ j > 0 /\ tokens1[i] = tokens2[j]
\* Variant of InsertCond with <= for >=: the walk goes left where the cell
\* above holds the longer common subsequence.
InsertCondReversed ==
    j > 0 /\ (IF i = 0 THEN TRUE ELSE matrix[i][j - 1] <= matrix[i - 1][j])

\* Variant of InsertCond with > for >=: a tie goes to DELETE.
InsertCondStrict ==
    j > 0 /\ (IF i = 0 THEN TRUE ELSE matrix[i][j - 1] > matrix[i - 1][j])

InsertCond ==
    j > 0 /\ (IF i = 0 THEN TRUE ELSE matrix[i][j - 1] >= matrix[i - 1][j])
DeleteCond == i > 0

\* Variant of BacktrackEqual that forgets j -= 1.
BacktrackEqualKeepingJ ==
    /\ pc = "walk"
    /\ LoopCond
    /\ MatchCond
    /\ edits' = Append(edits, Edit("EQUAL", <<tokens1[i]>>, i - 1, j - 1))
    /\ i' = i - 1
    /\ UNCHANGED <<pc, text1, text2, chars, tokens1, tokens2, matrix, j,
                   raw_edits, coalesced, current, idx, main_coalesced, call,
                   list_ids, docs>>

BacktrackEqual ==
    /\ pc = "walk"
    /\ LoopCond
    /\ MatchCond
    /\ edits' = Append(edits, Edit("EQUAL", <<tokens1[i]>>, i - 1, j - 1))
    /\ i' = i - 1
    /\ j' = j - 1
    /\ UNCHANGED <<pc, text1, text2, chars, tokens1, tokens2, matrix,
                   raw_edits, coalesced, current, idx, main_coalesced, call,
                   list_ids, docs>>

\* Variant of BacktrackInsert that stores the row as pos1.
BacktrackInsertWithPos1 ==
    /\ pc = "walk"
    /\ LoopCond
    /\ ~MatchCond
    /\ InsertCond
    /\ edits' = Append(edits, Edit("INSERT", <<tokens2[j]>>, i - 1, j - 1))
    /\ j' = j - 1
    /\ UNCHANGED <<pc, text1, text2, chars, tokens1, tokens2, matrix, i,
                   raw_edits, coalesced, current, idx, main_coalesced, call,
                   list_ids, docs>>

BacktrackInsert ==
    /\ pc = "walk"
    /\ LoopCond
    /\ ~MatchCond
    /\ InsertCond
    /\ edits' = Append(edits, Edit("INSERT", <<tokens2[j]>>, None, j - 1))
    /\ j' = j - 1
    /\ UNCHANGED <<pc, text1, text2, chars, tokens1, tokens2, matrix, i,
                   raw_edits, coalesced, current, idx, main_coalesced, call,
                   list_ids, docs>>

\* Variant of BacktrackDelete that forgets i -= 1.
BacktrackDeleteKeepingI ==
    /\ pc = "walk"
    /\ LoopCond
    /\ ~MatchCond
    /\ ~InsertCond
    /\ DeleteCond
    /\ edits' = Append(edits, Edit("DELETE", <<tokens1[i]>>, i - 1, None))
    /\ UNCHANGED <<pc, text1, text2, chars, tokens1, tokens2, matrix, i, j,
                   raw_edits, coalesced, current, idx, main_coalesced, call,
                   list_ids, docs>>

BacktrackDelete ==
    /\ pc = "walk"
    /\ LoopCond
    /\ ~MatchCond
    /\ ~InsertCond
    /\ DeleteCond
    /\ edits' = Append(edits, Edit("DELETE", <<tokens1[i]>>, i - 1, None))
    /\ i' = i - 1
    /\ UNCHANGED <<pc, text1, text2, chars, tokens1, tokens2, matrix, j,
                   raw_edits, coalesced, current, idx, main_coalesced, call,
                   list_ids, docs>>

\* Variant of BacktrackReturn without edits.reverse().
BacktrackReturnUnreversed ==
    /\ pc = "walk"
    /\ ~LoopCond
    /\ raw_edits' = edits
    /\ pc' = "coalesce"
    /\ UNCHANGED <<text1, text2, chars, tokens1, tokens2, matrix, i, j, edits,
                   coalesced, current, idx, main_coalesced, call,
                   list_ids, docs>>

\* The loop ends; edits.reverse(); return edits (main stores it in raw_edits).
BacktrackReturn ==
    /\ pc = "walk"
    /\ ~LoopCond
    /\ raw_edits' = Reverse(edits)
    /\ pc' = "coalesce"
    /\ UNCHANGED <<text1, text2, chars, tokens1, tokens2, matrix, i, j, edits,
                   coalesced, current, idx, main_coalesced, call,
                   list_ids, docs>>

---------------------------------------------------------------------------
(* coalesce_edits, called twice by main unless --no-coalesce *)

\* Edit(e.op, list(e.tokens), e.pos1, e.pos2): a new group copied from e.
NewGroup(e) == Edit(e.op, e.tokens, e.pos1, e.pos2)

\* Variant of Extend that assigns the tokens instead of extending them.
ExtendReplacing(group, e) == [group EXCEPT !.tokens = e.tokens]

\* Variant of Extend that also moves the group's positions to the edit's.
ExtendMovingPos(group, e) ==
    [group EXCEPT !.tokens = @ \o e.tokens, !.pos1 = e.pos1, !.pos2 = e.pos2]

\* current.tokens.extend(e.tokens)
Extend(group, e) == [group EXCEPT !.tokens = @ \o e.tokens]

\* Variant of NewGroupList without the list(...) copy: the new group holds
\* the list of the edit it starts from.
NewGroupListShared(k) == k

\* The list object of the tokens of a group started from the k-th edit:
\* list(edit.tokens) creates a new list.
NewGroupList(k) == 0

\* The effect of current.tokens.extend(e.tokens) on the input script: an
\* edit of it changes when the extended list, id, is that edit's list.
ExtendInput(script, id, e) ==
    IF id = 0 THEN script ELSE [script EXCEPT ![id] = Extend(@, e)]

\* Its effect on the groups main holds from an earlier call, whose lists are
\* ids: those that hold the extended list change with it. (The groups of
\* `coalesced` were started from earlier edits of this call than `current`
\* and cannot hold its list.)
ExtendSharing(groups, ids, id, e) ==
    [g \in 1..Len(groups) |->
        IF id # 0 /\ ids[g] = id THEN Extend(groups[g], e) ELSE groups[g]]

\* main after a coalesce_edits call returned: the second call, or the end.
AfterCall == IF call = 0 THEN "coalesce" ELSE "done"

\* args.no_coalesce: raw edits are printed, coalesce_edits is never called.
MainNoCoalesce ==
    /\ pc = "coalesce"
    /\ call = 0
    /\ pc' = "done"
    /\ UNCHANGED <<text1, text2, chars, tokens1, tokens2, matrix, i, j, edits,
                   raw_edits, coalesced, current, idx, main_coalesced, call,
                   list_ids, docs>>

\* if not edits: return []
CoalesceEmpty ==
    /\ pc = "coalesce"
    /\ raw_edits = <<>>
    /\ main_coalesced' = <<>>
    /\ list_ids' = [list_ids EXCEPT !.result = <<>>]
    /\ call' = call + 1
    /\ pc' = AfterCall
    /\ UNCHANGED <<text1, text2, chars, tokens1, tokens2, matrix, i, j, edits,
                   raw_edits, coalesced, current, idx, docs>>

CoalesceStart ==
    /\ pc = "coalesce"
    /\ raw_edits # <<>>
    /\ coalesced' = <<>>
    /\ current' = NewGroup(raw_edits[1])
    /\ list_ids' = [list_ids EXCEPT !.current = NewGroupList(1),
                                    !.coalesced = <<>>]
    /\ idx' = 2
    /\ pc' = "loop"
    /\ UNCHANGED <<text1, text2, chars, tokens1, tokens2, matrix, i, j, edits,
                   raw_edits, main_coalesced, call, docs>>

CoalesceExtend ==
    /\ pc = "loop"
    /\ idx <= Len(raw_edits)
    /\ raw_edits[idx].op = current.op
    /\ current' = Extend(current, raw_edits[idx])
    /\ raw_edits' = ExtendInput(raw_edits, list_ids.current, raw_edits[idx])
    /\ main_coalesced' = ExtendSharing(main_coalesced, list_ids.result,
                                       list_ids.current, raw_edits[idx])
    /\ idx' = idx + 1
    /\ UNCHANGED <<pc, text1, text2, chars, tokens1, tokens2, matrix, i, j,
                   edits, coalesced, call, list_ids, docs>>

CoalesceNewGroup ==
    /\ pc = "loop"
    /\ idx <= Len(raw_edits)
    /\ raw_edits[idx].op # current.op
    /\ coalesced' = Append(coalesced, current)
    /\ current' = NewGroup(raw_edits[idx])
    /\ list_ids' = [list_ids EXCEPT
                       !.coalesced = Append(@, list_ids.current),
                       !.current = NewGroupList(idx)]
    /\ idx' = idx + 1
    /\ UNCHANGED <<pc, text1, text2, chars, tokens1, tokens2, matrix, i, j,
                   edits, raw_edits, main_coalesced, call, docs>>

\* Variant of CoalesceReturn without the final coalesced.append(current).
CoalesceReturnDroppingLast ==
    /\ pc = "loop"
    /\ idx > Len(raw_edits)
    /\ main_coalesced' = coalesced
    /\ list_ids' = [list_ids EXCEPT !.result = list_ids.coalesced]
    /\ call' = call + 1
    /\ pc' = AfterCall
    /\ UNCHANGED <<text1, text2, chars, tokens1, tokens2, matrix, i, j, edits,
                   raw_edits, coalesced, current, idx, docs>>

\* coalesced.append(current); return coalesced
CoalesceReturn ==
    /\ pc = "loop"
    /\ idx > Len(raw_edits)
    /\ main_coalesced' = Append(coalesced, current)
    /\ list_ids' = [list_ids EXCEPT
                       !.result = Append(list_ids.coalesced, list_ids.current)]
    /\ call' = call + 1
    /\ pc' = AfterCall
    /\ UNCHANGED <<text1, text2, chars, tokens1, tokens2, matrix, i, j, edits,
                   raw_edits, coalesced, current, idx, docs>>

---------------------------------------------------------------------------
(* Specification of main in --text mode *)

Next ==
    \/ Tokenize
    \/ ComputeMatrix
    \/ BacktrackStart
    \/ BacktrackEqual
    \/ BacktrackInsert
    \/ BacktrackDelete
    \/ BacktrackReturn
    \/ MainNoCoalesce
    \/ CoalesceEmpty
    \/ CoalesceStart
    \/ CoalesceExtend
    \/ CoalesceNewGroup
    \/ CoalesceReturn

Spec == Init /\ [][Next]_vars

---------------------------------------------------------------------------
(* Specification of the tokenizer over every whitespace character *)

InitTokenize ==
    /\ pc = "tokenize"
    /\ text1 \in SeqsUpTo(FullAlphabet, MaxText)
    /\ text2 \in SeqsUpTo(FullAlphabet, 1)
    /\ chars \in BOOLEAN
    /\ tokens1 = <<>>
    /\ tokens2 = <<>>
    /\ matrix = ZeroMatrix(0, 0)
    /\ i = 0
    /\ j = 0
    /\ edits = <<>>
    /\ raw_edits = <<>>
    /\ coalesced = <<>>
    /\ current = NoEdit
    /\ idx = 0
    /\ main_coalesced = <<>>
    /\ call = 0
    /\ list_ids = NoLists
    /\ docs = NoDocs

NextTokenize == Tokenize

SpecTokenize == InitTokenize /\ [][NextTokenize]_vars

---------------------------------------------------------------------------
(* Specification of backtrack_lcs alone: main at the call of line 361 in   *)
(* character mode. The loop runs to its end once entered, which weak       *)
(* fairness of the function's steps states.                                *)

InitWalk ==
    /\ pc = "backtrack"
    /\ text1 \in SeqsUpTo(Alphabet, MaxLen)
    /\ text2 \in SeqsUpTo(Alphabet, MaxLen)
    /\ chars = TRUE
    /\ tokens1 = tokenize_chars(text1)
    /\ tokens2 = tokenize_chars(text2)
    /\ matrix = compute_lcs_matrix(tokens1, tokens2)
    /\ i = 0
    /\ j = 0
    /\ edits = <<>>
    /\ raw_edits = <<>>
    /\ coalesced = <<>>
    /\ current = NoEdit
    /\ idx = 0
    /\ main_coalesced = <<>>
    /\ call = 0
    /\ list_ids = NoLists
    /\ docs = NoDocs

NextWalk ==
    \/ BacktrackStart
    \/ BacktrackEqual
    \/ BacktrackInsert
    \/ BacktrackDelete
    \/ BacktrackReturn

SpecWalk == InitWalk /\ [][NextWalk]_vars /\ WF_vars(NextWalk)

---------------------------------------------------------------------------
(* Specification of coalesce_edits over every edit script: the scripts     *)
(* main hands it, and scripts of any shape handed to it directly.          *)

TokA == <<"a">>
TokB == <<"b">>

\* Token runs and position pairs of the edits of a directly given script.
TokenRuns == {<<TokA>>, <<TokB, TokA>>}
PosPairs == {<<None, None>>, <<0, 1>>, <<1, 0>>}

AnyEdit ==
    {Edit(op, run, p[1], p[2]) : op \in EditOp, run \in TokenRuns, p \in PosPairs}

InitCoalesce ==
    /\ pc = "coalesce"
    /\ raw_edits \in SeqsUpTo(AnyEdit, MaxEdits)
    /\ text1 = <<>>
    /\ text2 = <<>>
    /\ chars = FALSE
    /\ tokens1 = <<>>
    /\ tokens2 = <<>>
    /\ matrix = ZeroMatrix(0, 0)
    /\ i = 0
    /\ j = 0
    /\ edits = <<>>
    /\ coalesced = <<>>
    /\ current = NoEdit
    /\ idx = 0
    /\ main_coalesced = <<>>
    /\ call = 0
    /\ list_ids = NoLists
    /\ docs = NoDocs

SpecCoalesce == (Init \/ InitCoalesce) /\ [][Next]_vars

---------------------------------------------------------------------------
(* main in file mode: find_section_text on both documents, then the checks *)
(* of lines 329-334, then the pipeline                                      *)

MaxParas == 2      \* most paragraphs of a document

\* The section ids of the query ("section " gives the empty id, line 322),
\* and the texts a paragraph may have.
SectionIds == { <<>>, <<"a">> }
ParaTexts == { <<>>, <<" ", "A">>, <<"a", "b">> }

\* A paragraph: its text, and whether section_pattern matches it.
Paras == [text : ParaTexts, marker : BOOLEAN]

\* What opening and parsing a document comes to: the file is missing
\* (FileNotFoundError), is no zip archive (BadZipFile), holds no
\* word/document.xml, holds one that is not well-formed XML, or is sound.
DocKinds == {"no_file", "bad_zip", "no_part", "bad_xml", "ok"}

Docs ==
    {[kind |-> k, paras |-> <<>>] : k \in DocKinds \ {"ok"}}
    \cup {[kind |-> "ok", paras |-> ps] : ps \in SeqsUpTo(Paras, MaxParas)}

\* extract_xml_from_docx returns None: the part is not in the archive, or
\* BadZipFile / FileNotFoundError was caught.
ExtractReturnsNone(doc) == doc.kind \in {"no_file", "bad_zip", "no_part"}

\* ET.fromstring(xml_content) raises ParseError, which nothing catches.
ParseRaises(doc) == doc.kind = "bad_xml"

\* str.lower() and str.lstrip() on the characters of the model.
LowerChar(c) == IF c = "A" THEN "a" ELSE IF c = "B" THEN "b" ELSE c
Lower(text) == [k \in 1..Len(text) |-> LowerChar(text[k])]

RECURSIVE Lstrip(_)
Lstrip(text) ==
    IF text # <<>> /\ Head(text) \in Whitespace THEN Lstrip(Tail(text)) ELSE text

\* The test of lines 90-94: the paragraph starts with the section id, and
\* the id is followed by nothing or by one of ' \t\n '.
StartsSection(text, section_id) ==
    LET text_normalized == Lower(Lstrip(text))
        section_normalized == Lower(section_id)
        n == Len(section_normalized)
    IN /\ Len(text_normalized) >= n
       /\ SubSeq(text_normalized, 1, n) = section_normalized
       /\ IF Len(text_normalized) = n THEN TRUE
          ELSE text_normalized[n + 1] \in {" ", "\t", "\n", NBSP}

\* ' '.join(result_texts)
RECURSIVE JoinSpace(_)
JoinSpace(texts) ==
    IF Len(texts) = 1 THEN Head(texts)
    ELSE Head(texts) \o <<" ">> \o JoinSpace(Tail(texts))

\* The loop of find_section_text over the paragraphs, from paragraph k on.
RECURSIVE CollectFrom(_, _, _, _, _)
CollectFrom(paras, section_id, k, found, result_texts) ==
    IF k > Len(paras) THEN result_texts
    ELSE IF ~found
         THEN IF StartsSection(paras[k].text, section_id)
              THEN CollectFrom(paras, section_id, k + 1, TRUE,
                               Append(result_texts, paras[k].text))
              ELSE CollectFrom(paras, section_id, k + 1, FALSE, result_texts)
         ELSE IF paras[k].marker
              THEN result_texts
              ELSE CollectFrom(paras, section_id, k + 1, TRUE,
                               Append(result_texts, paras[k].text))

\* find_section_text where it returns: None or the section's text.
find_section_text(doc, section_id) ==
    IF ExtractReturnsNone(doc) THEN NoText
    ELSE LET result_texts == CollectFrom(doc.paras, section_id, 1, FALSE, <<>>)
         IN IF result_texts # <<>> THEN JoinSpace(result_texts) ELSE NoText

InitFile ==
    /\ pc = "find1"
    /\ docs \in [input1 : Docs, input2 : Docs, section_id : SectionIds]
    /\ text1 = NoText
    /\ text2 = NoText
    /\ chars \in BOOLEAN
    /\ tokens1 = <<>>
    /\ tokens2 = <<>>
    /\ matrix = ZeroMatrix(0, 0)
    /\ i = 0
    /\ j = 0
    /\ edits = <<>>
    /\ raw_edits = <<>>
    /\ coalesced = <<>>
    /\ current = NoEdit
    /\ idx = 0
    /\ main_coalesced = <<>>
    /\ call = 0
    /\ list_ids = NoLists

\* text1 = find_section_text(args.input1, section_id)
FindSection1 ==
    /\ pc = "find1"
    /\ ~ParseRaises(docs.input1)
    /\ text1' = find_section_text(docs.input1, docs.section_id)
    /\ pc' = "find2"
    /\ UNCHANGED <<text2, chars, tokens1, tokens2, matrix, i, j, edits,
                   raw_edits, coalesced, current, idx, main_coalesced, call,
                   list_ids, docs>>

\* text2 = find_section_text(args.input2, section_id)
FindSection2 ==
    /\ pc = "find2"
    /\ ~ParseRaises(docs.input2)
    /\ text2' = find_section_text(docs.input2, docs.section_id)
    /\ pc' = "check"
    /\ UNCHANGED <<text1, chars, tokens1, tokens2, matrix, i, j, edits,
                   raw_edits, coalesced, current, idx, main_coalesced, call,
                   list_ids, docs>>

\* ET.fromstring raises inside either call; the exception leaves main.
FindSectionRaises ==
    /\ pc \in {"find1", "find2"}
    /\ ParseRaises(IF pc = "find1" THEN docs.input1 ELSE docs.input2)
    /\ pc' = "raised"
    /\ UNCHANGED <<text1, text2, chars, tokens1, tokens2, matrix, i, j, edits,
                   raw_edits, coalesced, current, idx, main_coalesced, call,
                   list_ids, docs>>

\* if text1 is None: ... sys.exit(1); if text2 is None: ... sys.exit(1)
ExitNotFound ==
    /\ pc = "check"
    /\ IF text1 = NoText THEN TRUE ELSE text2 = NoText
    /\ pc' = "exit"
    /\ UNCHANGED <<text1, text2, chars, tokens1, tokens2, matrix, i, j, edits,
                   raw_edits, coalesced, current, idx, main_coalesced, call,
                   list_ids, docs>>

\* Both texts were found: main goes on to tokenize them.
TextsFound ==
    /\ pc = "check"
    /\ text1 # NoText
    /\ text2 # NoText
    /\ pc' = "tokenize"
    /\ UNCHANGED <<text1, text2, chars, tokens1, tokens2, matrix, i, j, edits,
                   raw_edits, coalesced, current, idx, main_coalesced, call,
                   list_ids, docs>>

NextFile ==
    \/ FindSection1
    \/ FindSection2
    \/ FindSectionRaises
    \/ ExitNotFound
    \/ TextsFound
    \/ Next

SpecFile == InitFile /\ [][NextFile]_vars

---------------------------------------------------------------------------
(* Properties *)

\* backtrack_lcs has returned and main holds its result in raw_edits.
BacktrackReturned == pc \in {"coalesce", "loop", "done"}

\* The tokens of the edits of a script whose operation is in ops, in order.
RECURSIVE TokensOf(_, _)
TokensOf(script, ops) ==
    IF script = <<>> THEN <<>>
    ELSE (IF Head(script).op \in ops THEN Head(script).tokens ELSE <<>>)
         \o TokensOf(Tail(script), ops)

OpsOf(script) == {script[k].op : k \in 1..Len(script)}

\* C1: the raw edit script of backtrack_lcs reconstructs both inputs: the
\* tokens of its EQUAL and DELETE edits, in order, are seq1 and the tokens of
\* its EQUAL and INSERT edits, in order, are seq2.
RawScriptReconstructsInputs ==
    BacktrackReturned =>
        /\ TokensOf(raw_edits, {"EQUAL", "DELETE"}) = tokens1
        /\ TokensOf(raw_edits, {"EQUAL", "INSERT"}) = tokens2

\* A script with all three operations has been returned.
RawScriptReconstructsInputsWitness ==
    /\ pc = "coalesce"
    /\ call = 0
    /\ OpsOf(raw_edits) = EditOp
    /\ Len(tokens1) = MaxLen

\* The subsequence of s at the indices in S, from index k on.
RECURSIVE Pick(_, _, _)
Pick(s, S, k) ==
    IF k > Len(s) THEN <<>>
    ELSE (IF k \in S THEN <<s[k]>> ELSE <<>>) \o Pick(s, S, k + 1)

Subsequences(s) == {Pick(s, S, 1) : S \in SUBSET (1..Len(s))}

CommonSubsequences(a, b) == Subsequences(a) \cap Subsequences(b)

\* Length of a longest common subsequence, by enumeration.
LCSLength(a, b) ==
    CHOOSE n \in 0..Len(a) :
        /\ \E x \in CommonSubsequences(a, b) : Len(x) = n
        /\ \A x \in CommonSubsequences(a, b) : Len(x) <= n

Prefix(s, n) == SubSeq(s, 1, n)

\* C2: every cell matrix[r][c] of the matrix compute_lcs_matrix returns is
\* the length of a longest common subsequence of the first r tokens of seq1
\* and the first c tokens of seq2.
MatrixCellsAreLCSLengths ==
    pc = "backtrack" =>
        /\ DOMAIN matrix = 0..Len(tokens1)
        /\ \A r \in 0..Len(tokens1) :
             /\ DOMAIN matrix[r] = 0..Len(tokens2)
             /\ \A c \in 0..Len(tokens2) :
                  matrix[r][c] = LCSLength(Prefix(tokens1, r), Prefix(tokens2, c))

\* A full-size matrix whose corner is neither 0 nor the full length.
MatrixCellsAreLCSLengthsWitness ==
    /\ pc = "backtrack"
    /\ Len(tokens1) = MaxLen
    /\ Len(tokens2) = MaxLen
    /\ matrix[MaxLen][MaxLen] = MaxLen - 1
    /\ tokens1[1] # tokens2[1]
    /\ tokens1[MaxLen] # tokens2[MaxLen]

\* One step of the walk at a cell off both borders whose tokens differ.
TieBreakStep ==
    (pc = "walk" /\ i > 0 /\ j > 0 /\ tokens1[i] # tokens2[j] /\ edits' # edits)
    => IF matrix[i][j - 1] >= matrix[i - 1][j]
       THEN /\ edits' = Append(edits, Edit("INSERT", <<tokens2[j]>>, None, j - 1))
            /\ i' = i
            /\ j' = j - 1
       ELSE /\ edits' = Append(edits, Edit("DELETE", <<tokens1[i]>>, i - 1, None))
            /\ i' = i - 1
            /\ j' = j

\* The script of seq1 = [a, b], seq2 = [b, a].
AbBaScript ==
    (BacktrackReturned /\ tokens1 = <<TokA, TokB>> /\ tokens2 = <<TokB, TokA>>)
    => raw_edits = << Edit("DELETE", <<TokA>>, 0, None),
                      Edit("EQUAL", <<TokB>>, 1, 0),
                      Edit("INSERT", <<TokA>>, None, 1) >>

\* C3: at a cell (i, j) with i > 0, j > 0 and differing tokens the walk emits
\* INSERT of seq2[j-1] when matrix[i][j-1] >= matrix[i-1][j], so also on a
\* tie, and DELETE of seq1[i-1] otherwise; the script of [a, b] against
\* [b, a] is therefore DELETE a, EQUAL b, INSERT a.
TieBreakPrefersInsert == [][TieBreakStep]_vars /\ []AbBaScript

\* The walk of [a, b] against [b, a] has met the tie at (2, 2) and inserted.
TieBreakPrefersInsertWitness ==
    /\ pc = "walk"
    /\ tokens1 = <<TokA, TokB>>
    /\ tokens2 = <<TokB, TokA>>
    /\ matrix[2][1] = matrix[1][2]
    /\ edits = <<Edit("INSERT", <<TokA>>, None, 1)>>
    /\ i = 2
    /\ j = 1

\* A coalesce_edits call has returned and main holds its result.
CoalesceReturned == call >= 1

\* The indices at which a maximal run of same-operation edits starts.
RunStarts(script) ==
    {k \in 1..Len(script) : k = 1 \/ script[k].op # script[k - 1].op}

\* The start of the g-th maximal run, and the last index of the run at k.
NthRunStart(script, g) ==
    CHOOSE k \in RunStarts(script) :
        Cardinality({s \in RunStarts(script) : s <= k}) = g

RunEnd(script, k) ==
    CHOOSE e \in k..Len(script) :
        /\ \A t \in k..e : script[t].op = script[k].op
        /\ e = Len(script) \/ script[e + 1].op # script[k].op

\* The token runs of script[k..e], concatenated.
RunTokens(script, k, e) == Join([t \in 1..(e - k + 1) |-> script[k + t - 1].tokens])

\* C4: the groups coalesce_edits returns correspond one to one, in order, to
\* the maximal runs of consecutive same-operation edits of its input, so no
\* two adjacent groups have the same operation.
GroupsAreMaximalRuns ==
    CoalesceReturned =>
        /\ Len(main_coalesced) = Cardinality(RunStarts(raw_edits))
        /\ \A g \in 1..Len(main_coalesced) :
             LET k == NthRunStart(raw_edits, g)
                 e == RunEnd(raw_edits, k)
             IN /\ main_coalesced[g].op = raw_edits[k].op
                /\ main_coalesced[g].tokens = RunTokens(raw_edits, k, e)
        /\ \A g \in 1..(Len(main_coalesced) - 1) :
             main_coalesced[g].op # main_coalesced[g + 1].op

\* A script of a two-edit run followed by an edit of another operation has
\* been coalesced into two groups.
GroupsAreMaximalRunsWitness ==
    /\ CoalesceReturned
    /\ Len(raw_edits) = 3
    /\ raw_edits[1].op = raw_edits[2].op
    /\ raw_edits[2].op # raw_edits[3].op
    /\ Len(main_coalesced) = 2

\* C5: coalescing preserves the reconstructions: the tokens of the EQUAL and
\* DELETE groups, in order, are those of the EQUAL and DELETE edits of the
\* input, likewise for EQUAL and INSERT; so when the input reconstructs seq1
\* and seq2, as the script of backtrack_lcs does, the output does too.
CoalescePreservesReconstruction ==
    CoalesceReturned =>
        /\ TokensOf(main_coalesced, {"EQUAL", "DELETE"})
             = TokensOf(raw_edits, {"EQUAL", "DELETE"})
        /\ TokensOf(main_coalesced, {"EQUAL", "INSERT"})
             = TokensOf(raw_edits, {"EQUAL", "INSERT"})
        /\ (/\ TokensOf(raw_edits, {"EQUAL", "DELETE"}) = tokens1
            /\ TokensOf(raw_edits, {"EQUAL", "INSERT"}) = tokens2)
           => /\ TokensOf(main_coalesced, {"EQUAL", "DELETE"}) = tokens1
              /\ TokensOf(main_coalesced, {"EQUAL", "INSERT"}) = tokens2

\* The script of backtrack_lcs for two texts of full length, with a run of
\* two edits, has been coalesced.
CoalescePreservesReconstructionWitness ==
    /\ CoalesceReturned
    /\ Len(tokens1) = MaxLen
    /\ Len(tokens2) = MaxLen
    /\ OpsOf(raw_edits) = EditOp
    /\ Len(main_coalesced) < Len(raw_edits)

\* The result's groups carry the positions of the first edit of their runs.
GroupsHaveFirstPos ==
    CoalesceReturned =>
        \A g \in 1..Len(main_coalesced) :
            LET k == NthRunStart(raw_edits, g)
            IN /\ main_coalesced[g].pos1 = raw_edits[k].pos1
               /\ main_coalesced[g].pos2 = raw_edits[k].pos2

\* A step that appends an edit's tokens to the running group.
ExtendKeepsPos ==
    (pc = "loop" /\ pc' = "loop" /\ idx' = idx + 1 /\ coalesced' = coalesced)
    => /\ current'.pos1 = current.pos1
       /\ current'.pos2 = current.pos2

\* C10: each group coalesce_edits returns has the pos1 and pos2 of the first
\* raw edit of its run; appending a later edit of the same operation to the
\* running group never changes the group's pos1 or pos2.
GroupsKeepFirstPos == []GroupsHaveFirstPos /\ [][ExtendKeepsPos]_vars

\* A run of two edits with different positions has been coalesced into a
\* group that has the first edit's positions.
GroupsKeepFirstPosWitness ==
    /\ CoalesceReturned
    /\ Len(raw_edits) >= 2
    /\ raw_edits[1].op = raw_edits[2].op
    /\ raw_edits[1].pos1 # raw_edits[2].pos1
    /\ raw_edits[1].pos2 # raw_edits[2].pos2
    /\ main_coalesced[1].pos1 = raw_edits[1].pos1
    /\ main_coalesced[1].pos2 = raw_edits[1].pos2

\* C6 as claimed: when seq1 = seq2 the raw edit script has only EQUAL edits
\* and coalesce_edits of it is exactly one group.
IdenticalInputsGiveOneGroup ==
    (CoalesceReturned /\ tokens1 = tokens2) =>
        /\ \A k \in 1..Len(raw_edits) : raw_edits[k].op = "EQUAL"
        /\ Len(main_coalesced) = 1

\* C6, amended: when seq1 = seq2 the raw edit script has only EQUAL edits,
\* one per token; coalesce_edits of it is exactly one group when the
\* sequences are not empty and no group when they are empty.
IdenticalInputsGiveOneGroupUnlessEmpty ==
    (BacktrackReturned /\ tokens1 = tokens2) =>
        /\ Len(raw_edits) = Len(tokens1)
        /\ \A k \in 1..Len(raw_edits) : raw_edits[k].op = "EQUAL"
        /\ CoalesceReturned =>
             Len(main_coalesced) = (IF tokens1 = <<>> THEN 0 ELSE 1)

\* Two identical sequences of full length, not all one token, coalesced.
IdenticalInputsGiveOneGroupUnlessEmptyWitness ==
    /\ CoalesceReturned
    /\ tokens1 = tokens2
    /\ Len(tokens1) = MaxLen
    /\ tokens1[1] # tokens1[2]
    /\ Len(main_coalesced) = 1
    /\ Len(main_coalesced[1].tokens) = MaxLen

\* C7: tokenization is lossless in both modes: joining the tokens of
\* tokenize_words(text), or of tokenize_chars(text), in order gives text.
TokenizationIsLossless ==
    pc # "tokenize" =>
        /\ Join(tokens1) = text1
        /\ Join(tokens2) = text2

\* A text of whitespace around a word has been tokenized in word mode.
TokenizationIsLosslessWitness ==
    /\ pc # "tokenize"
    /\ ~chars
    /\ Len(text1) = MaxText
    /\ text1[1] \in Whitespace
    /\ text1[2] \notin Whitespace
    /\ text1[MaxText] \in Whitespace
    /\ Len(tokens1) = MaxText

\* One iteration of the walk's loop.
WalkStepDecreases ==
    (pc = "walk" /\ pc' = "walk") =>
        /\ i' + j' < i + j
        /\ i' >= 0
        /\ j' >= 0

\* The number of branches of the if / elif / elif chain an iteration takes.
BranchesTaken ==
    Cardinality({b \in {"equal", "insert", "delete"} :
        \/ b = "equal" /\ ENABLED BacktrackEqual
        \/ b = "insert" /\ ENABLED BacktrackInsert
        \/ b = "delete" /\ ENABLED BacktrackDelete})

WalkTakesOneBranch ==
    /\ (pc = "walk" /\ LoopCond) => BranchesTaken = 1
    /\ pc = "walk" => (i >= 0 /\ j >= 0)

\* C8: the backward walk terminates: every iteration with i > 0 or j > 0
\* takes exactly one of the three branches and strictly decreases i + j
\* without making i or j negative, and the walk reaches (0, 0).
WalkTerminates ==
    /\ [][WalkStepDecreases]_vars
    /\ []WalkTakesOneBranch
    /\ (pc = "backtrack") ~> (pc = "walk" /\ i = 0 /\ j = 0)
    /\ <>(pc = "coalesce")

\* The walk of two full-length sequences with no common token has ended.
WalkTerminatesWitness ==
    /\ pc = "walk"
    /\ i = 0
    /\ j = 0
    /\ Len(edits) = 2 * MaxLen

\* The positions field `field` of the edits of a script whose operation is
\* in ops, in order.
RECURSIVE PositionsOf(_, _, _)
PositionsOf(script, ops, field) ==
    IF script = <<>> THEN <<>>
    ELSE (IF Head(script).op \in ops THEN <<Head(script)[field]>> ELSE <<>>)
         \o PositionsOf(Tail(script), ops, field)

\* 0, 1, ..., n - 1
UpTo(n) == [k \in 1..n |-> k - 1]

\* C9: in the raw edit script every EQUAL edit carries pos1 and pos2, every
\* DELETE edit pos1 only, every INSERT edit pos2 only, each edit's token is
\* the token at its position(s), and the pos1 values of the EQUAL and DELETE
\* edits are 0 .. |seq1|-1 in order, the pos2 values of the EQUAL and INSERT
\* edits 0 .. |seq2|-1 in order.
RawPositionsAreWellFormed ==
    BacktrackReturned =>
        /\ \A k \in 1..Len(raw_edits) :
             LET e == raw_edits[k]
             IN /\ Len(e.tokens) = 1
                /\ e.op \in EditOp
                /\ (e.pos1 # None) = (e.op \in {"EQUAL", "DELETE"})
                /\ (e.pos2 # None) = (e.op \in {"EQUAL", "INSERT"})
                /\ e.pos1 # None =>
                     e.pos1 \in 0..(Len(tokens1) - 1) /\ e.tokens[1] = tokens1[e.pos1 + 1]
                /\ e.pos2 # None =>
                     e.pos2 \in 0..(Len(tokens2) - 1) /\ e.tokens[1] = tokens2[e.pos2 + 1]
        /\ PositionsOf(raw_edits, {"EQUAL", "DELETE"}, "pos1") = UpTo(Len(tokens1))
        /\ PositionsOf(raw_edits, {"EQUAL", "INSERT"}, "pos2") = UpTo(Len(tokens2))

\* A returned script with all three operations whose first edit is an INSERT
\* and whose last is a DELETE.
RawPositionsAreWellFormedWitness ==
    /\ BacktrackReturned
    /\ OpsOf(raw_edits) = EditOp
    /\ raw_edits[1].op = "INSERT"
    /\ raw_edits[Len(raw_edits)].op = "DELETE"
    /\ raw_edits[Len(raw_edits)].pos1 = MaxLen - 1

\* A step of a coalesce_edits call leaves the input script as it is.
CoalesceKeepsInput ==
    pc \in {"coalesce", "loop"} => raw_edits' = raw_edits

\* No group, running, closed or returned, holds the list of an input edit.
NoListShared ==
    /\ list_ids.current = 0
    /\ \A g \in 1..Len(list_ids.coalesced) : list_ids.coalesced[g] = 0
    /\ \A g \in 1..Len(list_ids.result) : list_ids.result[g] = 0

\* The return of the second call gives main what the first gave it.
SecondCallReturnsTheSame ==
    (call = 1 /\ call' = 2) => main_coalesced' = main_coalesced

\* C11: coalesce_edits does not modify its input: every edit of X keeps its
\* op, tokens, pos1 and pos2, no token list of X is shared with an output
\* group, and the second call main makes on the same X returns a result
\* equal to the first.
CoalesceLeavesInputAlone ==
    /\ [][CoalesceKeepsInput]_vars
    /\ []NoListShared
    /\ [][SecondCallReturnsTheSame]_vars

\* Both calls have returned for a script in which a group was extended.
CoalesceLeavesInputAloneWitness ==
    /\ call = 2
    /\ pc = "done"
    /\ Len(raw_edits) = 3
    /\ raw_edits[1].op = raw_edits[2].op
    /\ raw_edits[2].op # raw_edits[3].op
    /\ Len(main_coalesced) = 2
    /\ Len(main_coalesced[1].tokens) > Len(raw_edits[1].tokens)

\* find_section_text has no text to give for the document: it cannot be
\* opened or parsed, or no paragraph of it starts the queried section.
UpstreamFailure(doc) ==
    \/ doc.kind # "ok"
    \/ \A k \in 1..Len(doc.paras) :
          ~StartsSection(doc.paras[k].text, docs.section_id)

\* The pipeline has not been entered: none of its variables was written.
PipelineNotRun ==
    /\ pc \in {"find1", "find2", "check", "exit"}
    /\ tokens1 = <<>> /\ tokens2 = <<>>
    /\ matrix = ZeroMatrix(0, 0)
    /\ edits = <<>> /\ raw_edits = <<>>
    /\ main_coalesced = <<>> /\ call = 0

\* C12: in file mode every upstream failure for either document (section
\* not found, document part missing, archive or part malformed) comes out as
\* not found: find_section_text returns None and main exits with status 1,
\* no error is raised during the run and the pipeline is never invoked;
\* without a failure main does not exit so.
UpstreamFailureIsNotFound ==
    docs # NoDocs =>
        /\ pc # "raised"
        /\ (pc \in {"find2", "check", "exit"} /\ UpstreamFailure(docs.input1))
             => text1 = NoText
        /\ (pc \in {"check", "exit"} /\ UpstreamFailure(docs.input2))
             => text2 = NoText
        /\ (UpstreamFailure(docs.input1) \/ UpstreamFailure(docs.input2))
             => PipelineNotRun
        /\ pc = "exit"
             => (UpstreamFailure(docs.input1) \/ UpstreamFailure(docs.input2))

\* Number of edits of the script whose operation is one of ops.
CountOps(script, ops) ==
    Cardinality({k \in 1..Len(script) : script[k].op \in ops})

\* C13: the edit script is minimal.  At every head of the loop of
\* backtrack_lcs the number of EQUAL edits emitted so far plus matrix[i][j]
\* equals matrix[|seq1|][|seq2|]; the returned script has exactly
\* matrix[|seq1|][|seq2|] EQUAL edits and exactly
\* |seq1| + |seq2| - 2 * matrix[|seq1|][|seq2|] DELETE and INSERT edits.
ScriptIsMinimal ==
    LET m == Len(tokens1)
        n == Len(tokens2)
    IN /\ pc = "walk" =>
            CountOps(edits, {"EQUAL"}) + matrix[i][j] = matrix[m][n]
       /\ BacktrackReturned =>
            /\ CountOps(raw_edits, {"EQUAL"}) = matrix[m][n]
            /\ CountOps(raw_edits, {"DELETE", "INSERT"})
                 = m + n - 2 * matrix[m][n]

\* A returned script with all three operations, whose walk took the EQUAL
\* branch at a cell it reached through INSERT or DELETE steps.
ScriptIsMinimalWitness ==
    /\ BacktrackReturned
    /\ OpsOf(raw_edits) = EditOp
    /\ raw_edits[Len(raw_edits)].op # "EQUAL"
    /\ CountOps(raw_edits, {"EQUAL"}) = matrix[Len(tokens1)][Len(tokens2)]

\* C14: in the raw script returned by backtrack_lcs no INSERT is immediately
\* followed by a DELETE, and within every maximal run of non-EQUAL edits all
\* DELETEs come before all INSERTs; so in the coalesced output an INSERT
\* group is followed only by an EQUAL group and a DELETE group never by a
\* DELETE group: a changed region is at most one DELETE group, then at most
\* one INSERT group.
DeletesBeforeInserts ==
    /\ BacktrackReturned =>
         /\ \A k \in 1..(Len(raw_edits) - 1) :
               ~(raw_edits[k].op = "INSERT" /\ raw_edits[k + 1].op = "DELETE")
         /\ \A k \in 1..Len(raw_edits) : \A l \in (k + 1)..Len(raw_edits) :
               (/\ raw_edits[k].op = "INSERT"
                /\ raw_edits[l].op = "DELETE")
                  => \E e \in (k + 1)..(l - 1) : raw_edits[e].op = "EQUAL"
    /\ CoalesceReturned =>
         \A g \in 1..(Len(main_coalesced) - 1) :
            /\ main_coalesced[g].op = "INSERT"
                 => main_coalesced[g + 1].op = "EQUAL"
            /\ main_coalesced[g].op = "DELETE"
                 => main_coalesced[g + 1].op \in {"INSERT", "EQUAL"}

\* A coalesced script with a changed region of a DELETE group and an INSERT
\* group, from a raw script where a DELETE is next to an INSERT.
DeletesBeforeInsertsWitness ==
    /\ CoalesceReturned
    /\ \E k \in 1..(Len(raw_edits) - 1) :
          raw_edits[k].op = "DELETE" /\ raw_edits[k + 1].op = "INSERT"
    /\ \E g \in 1..(Len(main_coalesced) - 1) :
          /\ main_coalesced[g].op = "DELETE"
          /\ main_coalesced[g + 1].op = "INSERT"

===========================================================================
